---- MODULE Spec2Model ----
(***************************************************************************)
(* A model of the Papa Don't Preach product parser (src/parser.py).        *)
(*                                                                         *)
(* Python strings are sequences of one-character strings; '' is <<>>.      *)
(* A Python None in a string position is the value None below, a None in a *)
(* dict position (a product record, a page) is NoneRecord.                 *)
(* Four specifications share the operators that model the functions:       *)
(*   Spec      main(): links.txt -> fetch/extract loop -> one batch write  *)
(*   SpecCsv   save_to_csv and the clean mode called on one target file    *)
(*   SpecQuote one save_to_csv call, field values over the quote alphabet  *)
(*   SpecRec   extract_product_data* / process_kiwi_data on bounded pages  *)
(***************************************************************************)
EXTENDS Integers, Sequences, FiniteSets, TLC

VARIABLES
    pc,             \* position in main() / in the driver of the other specifications
    links_file,     \* links.txt: NoFile, Unreadable or its lines
    output_file,    \* the CSV target: NoFile or its lines (each a string)
    file0,          \* the CSV target as it was before the run started
    links,          \* main: the list read_links_from_file returned
    i,              \* main: the loop counter of enumerate(links, 1)
    html_content,   \* the page text at hand (NoneRecord for None, else a page)
    product_url,    \* the product_url argument at hand
    product_data,   \* the record (or NoneRecord) last returned
    all_products,   \* main: the accumulated results
    log,            \* main: the fetches and sleeps performed, in order
    writes,         \* number of save_to_csv calls that opened the target for writing
    fetched,        \* main: what download_html returned for each URL so far
    calls           \* SpecCsv: the last two calls made on the target file

vars == <<pc, links_file, output_file, file0, links, i, html_content, product_url,
          product_data, all_products, log, writes, fetched, calls>>

---------------------------------------------------------------------------
(* Bounds of the model *)

MaxImages == 4
MaxVariants == 3
MaxLines == 3
MaxRecs == 2
MaxCalls == 2
MaxStrLen == 2

---------------------------------------------------------------------------
(* Python values *)

None == <<"None">>
NoneRecord == [none |-> TRUE]
\* a file that does not exist, and one whose reading raises; like a file's
\* content each is a sequence of lines, so that it compares with any content
NoFile == <<<<"NoFile">>>>
Unreadable == <<<<"Unreadable">>>>

\* Python truthiness of an optional string: None and '' are falsy
Truthy(s) == s # None /\ s # <<>>

StartsWith(s, p) == Len(s) >= Len(p) /\ SubSeq(s, 1, Len(p)) = p

InSeq(x, s) == \E k \in 1..Len(s) : s[k] = x

RECURSIVE Join(_, _)
Join(sep, list) ==
    IF list = <<>> THEN <<>>
    ELSE IF Len(list) = 1 THEN list[1]
    ELSE list[1] \o sep \o Join(sep, Tail(list))

\* str.replace('\\/', '/')
RECURSIVE UnescapeSlashes(_)
UnescapeSlashes(s) ==
    IF Len(s) < 2 THEN s
    ELSE IF s[1] = "\\" /\ s[2] = "/" THEN <<"/">> \o UnescapeSlashes(SubSeq(s, 3, Len(s)))
    ELSE <<s[1]>> \o UnescapeSlashes(Tail(s))

\* dict.get(k, default)
Get(d, k, default) == IF k \in DOMAIN d THEN d[k] ELSE default

HTTPS == <<"h", "t", "t", "p", "s", ":">>

ORIGIN == <<"h", "t", "t", "p", "s", ":", "/", "/", "w", "w", "w", ".",
            "p", "a", "p", "a", "d", "o", "n", "t", "p", "r", "e", "a", "c", "h",
            ".", "c", "o", "m">>

\* the fieldnames list of save_to_csv, in column order
fieldnames == <<"URL", "ID", "Name", "Brand", "Article", "Gender", "Image2",
                "Ext Images", "Description", "Sizes", "Color", "Category", "ID2",
                "Combine">>

---------------------------------------------------------------------------
(* process_kiwi_data *)

\* the URL of the page: the argument, else the saved-from marker, else canonical
PageUrl(html, url) ==
    IF ~Truthy(url)
    THEN IF html.saved_from # None THEN html.saved_from
         ELSE IF html.canonical # NoneRecord THEN Get(html.canonical, "href", <<>>)
         ELSE <<>>
    ELSE url

\* image2: the first image made absolute
Image2Of(images) ==
    IF Len(images) > 0
    THEN LET first_image == images[1] IN
         IF StartsWith(first_image, <<"/", "/">>) THEN HTTPS \o first_image
         ELSE IF StartsWith(first_image, <<"/">>) THEN ORIGIN \o first_image
         ELSE first_image
    ELSE <<>>

ExtImagesSwapped(images) ==
    IF Len(images) >= 3
    THEN LET img2 == IF StartsWith(images[2], <<"/", "/">>) THEN HTTPS \o images[2]
                     ELSE IF StartsWith(images[2], <<"/">>) THEN ORIGIN \o images[2]
                     ELSE images[2]
             img3 == IF StartsWith(images[3], <<"/">>) THEN ORIGIN \o images[3]
                     ELSE IF StartsWith(images[3], <<"/", "/">>) THEN HTTPS \o images[3]
                     ELSE images[3]
         IN img2 \o <<",">> \o img3
    ELSE IF Len(images) = 2
    THEN IF StartsWith(images[2], <<"/", "/">>) THEN HTTPS \o images[2]
         ELSE IF StartsWith(images[2], <<"/">>) THEN ORIGIN \o images[2]
         ELSE images[2]
    ELSE <<>>

ExtImagesAll(images) ==
    IF Len(images) >= 2
    THEN Join(<<",">>, [k \in 1..(Len(images) - 1) |->
             IF StartsWith(images[k + 1], <<"/", "/">>) THEN HTTPS \o images[k + 1]
             ELSE IF StartsWith(images[k + 1], <<"/">>) THEN ORIGIN \o images[k + 1]
             ELSE images[k + 1]])
    ELSE <<>>

\* ext_images: the second and third image made absolute, comma-joined
ExtImagesOf(images) ==
    IF Len(images) >= 3
    THEN LET img2 == IF StartsWith(images[2], <<"/", "/">>) THEN HTTPS \o images[2]
                     ELSE IF StartsWith(images[2], <<"/">>) THEN ORIGIN \o images[2]
                     ELSE images[2]
             img3 == IF StartsWith(images[3], <<"/", "/">>) THEN HTTPS \o images[3]
                     ELSE IF StartsWith(images[3], <<"/">>) THEN ORIGIN \o images[3]
                     ELSE images[3]
         IN img2 \o <<",">> \o img3
    ELSE IF Len(images) = 2
    THEN IF StartsWith(images[2], <<"/", "/">>) THEN HTTPS \o images[2]
         ELSE IF StartsWith(images[2], <<"/">>) THEN ORIGIN \o images[2]
         ELSE images[2]
    ELSE <<>>

\* description: SwymProductInfo text, else meta description, else og:description
DescriptionOf(html) ==
    LET d1 == html.swym
        d2 == IF ~Truthy(d1)
              THEN IF html.meta # NoneRecord THEN Get(html.meta, "content", <<>>) ELSE d1
              ELSE d1
        d3 == IF ~Truthy(d2)
              THEN IF html.og # NoneRecord THEN Get(html.og, "content", <<>>) ELSE d2
              ELSE d2
    IN d3

RECURSIVE SizesLoopNoDedup(_, _)
SizesLoopNoDedup(variants, sizes) ==
    IF variants = <<>> THEN sizes
    ELSE LET size == Get(Head(variants), "public_title", <<>>) IN
         SizesLoopNoDedup(Tail(variants),
                          IF Truthy(size) THEN Append(sizes, size) ELSE sizes)

\* for variant in variants: if size and size not in sizes: sizes.append(size)
RECURSIVE SizesLoop(_, _)
SizesLoop(variants, sizes) ==
    IF variants = <<>> THEN sizes
    ELSE LET size == Get(Head(variants), "public_title", <<>>) IN
         SizesLoop(Tail(variants),
                   IF Truthy(size) /\ ~InSeq(size, sizes) THEN Append(sizes, size)
                   ELSE sizes)

\* article: the sku of variants[0]
ArticleOf(variants) ==
    IF variants # <<>> THEN Get(variants[1], "sku", <<>>) ELSE <<>>

ProductRecordSparse(url, product_id, title, brand, article, image2, ext_images, description, sizes_str, category, id2) ==
    ("URL" :> url) @@ ("ID" :> product_id)
    @@ (IF title # <<>> THEN ("Name" :> title) ELSE <<>>)
    @@ ("Brand" :> brand) @@ ("Article" :> article) @@ ("Gender" :> <<>>)
    @@ ("Image2" :> image2) @@ ("Ext Images" :> ext_images)
    @@ ("Description" :> description) @@ ("Sizes" :> sizes_str) @@ ("Color" :> <<>>)
    @@ ("Category" :> category) @@ ("ID2" :> id2) @@ ("Combine" :> <<>>)

\* the dict literal that process_kiwi_data returns
ProductRecord(url, product_id, title, brand, article, image2, ext_images, description, sizes_str, category, id2) ==
    ("URL" :> url) @@ ("ID" :> product_id) @@ ("Name" :> title)
    @@ ("Brand" :> brand) @@ ("Article" :> article) @@ ("Gender" :> <<>>)
    @@ ("Image2" :> image2) @@ ("Ext Images" :> ext_images)
    @@ ("Description" :> description) @@ ("Sizes" :> sizes_str) @@ ("Color" :> <<>>)
    @@ ("Category" :> category) @@ ("ID2" :> id2) @@ ("Combine" :> <<>>)

process_kiwi_data(kiwi_data, html, url, id2) ==
    LET title == Get(kiwi_data, "title", <<>>)
        brand == Get(kiwi_data, "vendor", <<>>)
        category == Get(kiwi_data, "type", <<>>)
        product_id == Get(kiwi_data, "product", <<>>)
        images == Get(kiwi_data, "images", <<>>)
        variants == Get(kiwi_data, "variants", <<>>)
        sizes == SizesLoop(variants, <<>>)
    IN ProductRecord(PageUrl(html, url), product_id, title, brand, ArticleOf(variants),
                     Image2Of(images), ExtImagesOf(images), DescriptionOf(html),
                     Join(<<",">>, sizes), category, id2)

---------------------------------------------------------------------------
(* extract_product_data_regex, extract_product_data, parse_url *)

\* A page is what the regular expressions find in its text:
\*   empty           the text is ''
\*   kiwi            KiwiSizing.data = {...}; is present
\*   matches         key -> first capture of product:/title:/vendor:/type:/images:[...]
\*   variants_match  variants:[...] is present
\*   variant_blocks  the <<public_title, sku>> captures found in it
\*   saved_from      None or the URL of the "saved from url=" marker
\*   canonical, meta, og   NoneRecord (no such element) or the element's attributes
\*   swym            the text recovered from SwymProductInfo ('' when none)

\* variants.append({'public_title': public_title, 'sku': sku}) per variant block
VariantsOf(html) ==
    IF html.variants_match
    THEN [k \in 1..Len(html.variant_blocks) |->
            [public_title |-> html.variant_blocks[k][1],
             sku |-> html.variant_blocks[k][2]]]
    ELSE <<>>

KiwiDataOf(html) ==
    [k \in (DOMAIN html.matches) \cup {"variants"} |->
        IF k = "variants" THEN VariantsOf(html)
        ELSE IF k = "images"
        THEN [n \in 1..Len(html.matches[k]) |-> UnescapeSlashes(html.matches[k][n])]
        ELSE html.matches[k]]

extract_product_data_regex(html, url, id2) ==
    process_kiwi_data(KiwiDataOf(html), html, url, id2)

extract_product_data(html, url, id2) ==
    IF ~html.kiwi THEN NoneRecord
    ELSE LET u1 == IF ~Truthy(url)
                   THEN LET u0 == html.saved_from IN
                        IF ~Truthy(u0)
                        THEN IF html.canonical # NoneRecord
                             THEN Get(html.canonical, "href", <<>>)
                             ELSE u0
                        ELSE u0
                   ELSE url
         IN extract_product_data_regex(html, u1, id2)

\* the part of parse_url after download_html returned html
parse_url(url, html, id2) ==
    IF html = NoneRecord \/ html.empty THEN NoneRecord
    ELSE LET pd == extract_product_data(html, url, id2) IN
         IF pd # NoneRecord /\ ~Truthy(pd["URL"]) THEN [pd EXCEPT !["URL"] = url]
         ELSE pd

---------------------------------------------------------------------------
(* remove_quotes, clean_product_data, clean_csv_file, save_to_csv *)

DQ == "\""
APOS == "'"
\* the character U+201D, RIGHT DOUBLE QUOTATION MARK
RDQ == "u201D"

\* str.replace(ch, '')
Remove(s, ch) == SelectSeq(s, LAMBDA c : c # ch)

\* value.replace('"', '').replace("'", '').replace('"', '')
remove_quotes(value) ==
    IF value = None THEN <<>>
    ELSE Remove(Remove(Remove(value, DQ), APOS), DQ)

clean_product_data(pd) ==
    IF pd = NoneRecord THEN pd
    ELSE [k \in DOMAIN pd |-> remove_quotes(pd[k])]

\* csv.writer with delimiter=';', quoting=QUOTE_NONE, escapechar='\\':
\* the delimiter, the escape character and the quote character are escaped
RECURSIVE EscapeField(_)
EscapeField(s) ==
    IF s = <<>> THEN <<>>
    ELSE (IF Head(s) \in {";", "\\", DQ} THEN <<"\\", Head(s)>> ELSE <<Head(s)>>)
         \o EscapeField(Tail(s))

\* DictWriter.writerow: the fields in fieldnames order, a missing key as ''
WriteRow(rowdict) ==
    Join(<<";">>, [k \in 1..Len(fieldnames) |->
                      EscapeField(Get(rowdict, fieldnames[k], <<>>))])

\* DictWriter.writeheader; a column name is kept as one token of the line
HeaderLine == Join(<<";">>, [k \in 1..Len(fieldnames) |-> <<fieldnames[k]>>])

\* the line.replace chain of clean_csv_file
CleanLine(line) == Remove(Remove(Remove(line, DQ), APOS), DQ)

clean_csv_file(file) ==
    IF file = NoFile THEN file
    ELSE [k \in 1..Len(file) |-> CleanLine(file[k])]

RECURSIVE RowsAll(_)
RowsAll(list) ==
    IF list = <<>> THEN <<>>
    ELSE <<IF Head(list) = NoneRecord THEN WriteRow(<<>>)
           ELSE WriteRow(clean_product_data(Head(list)))>>
         \o RowsAll(Tail(list))

\* for product_data in product_data_list: if product_data: writer.writerow(...)
RECURSIVE RowsOf(_)
RowsOf(list) ==
    IF list = <<>> THEN <<>>
    ELSE (IF Head(list) # NoneRecord
          THEN <<WriteRow(clean_product_data(Head(list)))>> ELSE <<>>)
         \o RowsOf(Tail(list))

OpenModeAlwaysWrite(file, append) == "w"

\* file_exists = os.path.exists(output_file) and append; mode = 'a' if ... else 'w'
OpenMode(file, append) ==
    LET file_exists == file # NoFile /\ append IN
    IF append /\ file_exists THEN "a" ELSE "w"

save_to_csv_any(product_data_list, file, append) ==
    IF \A k \in 1..Len(product_data_list) : product_data_list[k] = NoneRecord THEN file
    ELSE LET mode == OpenMode(file, append)
             opened == IF mode = "a" THEN file ELSE <<>>
             headed == IF mode = "w" THEN Append(opened, HeaderLine) ELSE opened
         IN clean_csv_file(headed \o RowsOf(product_data_list))

\* the target file after save_to_csv(product_data_list, output_file, append)
save_to_csv(product_data_list, file, append) ==
    IF product_data_list = <<>> THEN file
    ELSE LET mode == OpenMode(file, append)
             opened == IF mode = "a" THEN file ELSE <<>>
             headed == IF mode = "w" THEN Append(opened, HeaderLine) ELSE opened
         IN clean_csv_file(headed \o RowsOf(product_data_list))

\* whether save_to_csv opens the target for writing at all
SaveWrites(product_data_list) == product_data_list # <<>>

---------------------------------------------------------------------------
(* read_links_from_file *)

\* str.strip() for the whitespace of the model, the space
RECURSIVE LStrip(_)
LStrip(s) == IF s # <<>> /\ Head(s) = " " THEN LStrip(Tail(s)) ELSE s

RECURSIVE RStrip(_)
RStrip(s) ==
    IF s # <<>> /\ s[Len(s)] = " " THEN RStrip(SubSeq(s, 1, Len(s) - 1)) ELSE s

Strip(s) == RStrip(LStrip(s))

RECURSIVE KeepLinks(_)
KeepLinks(lines) ==
    IF lines = <<>> THEN <<>>
    ELSE LET line == Strip(Head(lines)) IN
         (IF line # <<>> /\ ~StartsWith(line, <<"#">>) THEN <<line>> ELSE <<>>)
         \o KeepLinks(Tail(lines))

read_links_from_file(file) ==
    IF file = NoFile THEN <<>>
    ELSE IF file = Unreadable THEN <<>>
    ELSE KeepLinks(file)

---------------------------------------------------------------------------
(* Inputs *)

\* all sequences over S of length at most n
SeqUpTo(S, n) == UNION {[1..k -> S] : k \in 0..n}

\* a page with a data block in which no pattern matches
BlankPage ==
    [empty |-> FALSE, kiwi |-> TRUE, matches |-> <<>>,
     variants_match |-> FALSE, variant_blocks |-> <<>>,
     saved_from |-> None, canonical |-> NoneRecord, swym |-> <<>>,
     meta |-> NoneRecord, og |-> NoneRecord]

\* the page whose text is ''
EmptyPage == [BlankPage EXCEPT !.empty = TRUE, !.kiwi = FALSE]

\* a page without KiwiSizing.data
NoDataPage == [BlankPage EXCEPT !.kiwi = FALSE, !.matches = ("title" :> <<"T">>)]

\* image strings as the images:[...] block holds them: //c  /p  c  \/q
UrlInputs == {<<"/", "/", "c">>, <<"/", "p">>, <<"c">>, <<"\\", "/", "q">>}

LabelInputs == {<<"S">>, <<"M">>}
SkuInputs == {<<"1">>, <<"2">>}

ScalarKeys == {"product", "title", "vendor", "type"}

ImagePages ==
    {[BlankPage EXCEPT !.matches = ("images" :> imgs)] :
        imgs \in SeqUpTo(UrlInputs, MaxImages)}

VariantPages ==
    {[BlankPage EXCEPT !.variants_match = TRUE, !.variant_blocks = vb] :
        vb \in SeqUpTo(LabelInputs \X SkuInputs, MaxVariants)}

PresencePages ==
    {[BlankPage EXCEPT
        !.matches = [k \in ks |-> IF k = "images" THEN <<<<"/", "p">>>> ELSE <<"v", DQ>>],
        !.variants_match = vm,
        !.variant_blocks = IF vm THEN <<<<<<"S">>, <<"1">>>>>> ELSE <<>>] :
        ks \in SUBSET (ScalarKeys \cup {"images"}),
        vm \in BOOLEAN}

MarkupPages ==
    {[BlankPage EXCEPT !.saved_from = sf, !.canonical = ca, !.swym = sw,
                       !.meta = me, !.og = og] :
        sf \in {None, <<"s">>},
        ca \in {NoneRecord, [rel |-> <<"c">>], [rel |-> <<"c">>, href |-> <<"h">>]},
        sw \in {<<>>, <<"d">>},
        me \in {NoneRecord, [name |-> <<"d">>], [name |-> <<"d">>, content |-> <<"m">>]},
        og \in {NoneRecord, [property |-> <<"o">>, content |-> <<"o">>]}}

PageInputs ==
    ImagePages \cup VariantPages \cup PresencePages \cup MarkupPages
    \cup {EmptyPage, NoDataPage}

\* uuid.uuid4() draws one of these
Uuids == {<<"u", "1">>, <<"u", "2">>}

---------------------------------------------------------------------------
(* SpecRec: the extraction functions applied to bounded pages *)

InitRec ==
    /\ pc = "rec"
    /\ html_content \in PageInputs
    /\ product_url \in {None, <<>>, <<"u">>}
    /\ product_data = NoneRecord
    /\ links_file = NoFile /\ output_file = NoFile /\ file0 = NoFile
    /\ links = <<>> /\ i = 0 /\ all_products = <<>> /\ log = <<>>
    /\ writes = 0 /\ fetched = <<>> /\ calls = <<>>

RecUnchanged ==
    UNCHANGED <<links_file, output_file, file0, links, i, html_content, product_url,
                all_products, log, writes, fetched, calls>>

CallExtractRegex ==
    /\ pc = "rec"
    /\ \E id2 \in Uuids :
         product_data' = extract_product_data_regex(html_content, product_url, id2)
    /\ pc' = "extract_product_data_regex"
    /\ RecUnchanged

CallExtract ==
    /\ pc = "rec"
    /\ \E id2 \in Uuids :
         product_data' = extract_product_data(html_content, product_url, id2)
    /\ pc' = "extract_product_data"
    /\ RecUnchanged

\* parse_html_file: extract_product_data(html_content) of the file's text
CallParseHtmlFile ==
    /\ pc = "rec"
    /\ product_url = None
    /\ \E id2 \in Uuids :
         product_data' = extract_product_data(html_content, None, id2)
    /\ pc' = "parse_html_file"
    /\ RecUnchanged

CallParseUrl ==
    /\ pc = "rec"
    /\ Truthy(product_url)
    /\ \E id2 \in Uuids :
         product_data' = parse_url(product_url, html_content, id2)
    /\ pc' = "parse_url"
    /\ RecUnchanged

NextRec == CallExtractRegex \/ CallExtract \/ CallParseHtmlFile \/ CallParseUrl

SpecRec == InitRec /\ [][NextRec]_vars

---------------------------------------------------------------------------
(* Spec: main() *)

\* lines of links.txt: a URL, a URL with surrounding blanks, a blank line, a comment
LinkLines == {<<"a">>, <<" ", "b", " ">>, <<" ">>, <<"#", "a">>}

LinksFiles == {NoFile, Unreadable} \cup SeqUpTo(LinkLines, MaxLines)

\* a page with a data block, a title and one variant
ProductPage ==
    [BlankPage EXCEPT !.matches = ("title" :> <<"T">>),
                      !.variants_match = TRUE,
                      !.variant_blocks = <<<<<<"S">>, <<"1">>>>>>]

\* an output file left by an earlier run
OldFile == <<HeaderLine, WriteRow(extract_product_data_regex(ProductPage, <<"z">>, <<"u", "0">>))>>

\* download_html: None on a RequestException, else response.text
DownloadResults == {NoneRecord, EmptyPage, NoDataPage, BlankPage, ProductPage}

Init ==
    /\ pc = "start"
    /\ links_file \in LinksFiles
    /\ file0 \in {NoFile, OldFile}
    /\ output_file = file0
    /\ links = <<>> /\ i = 0 /\ all_products = <<>> /\ log = <<>>
    /\ writes = 0 /\ fetched = <<>> /\ calls = <<>>
    /\ html_content = NoneRecord /\ product_url = None /\ product_data = NoneRecord

\* links = read_links_from_file(links_file); if not links: return
ReadLinks ==
    /\ pc = "start"
    /\ links' = read_links_from_file(links_file)
    /\ pc' = IF links' = <<>> THEN "done" ELSE "download"
    /\ i' = 1
    /\ UNCHANGED <<links_file, output_file, file0, html_content, product_url,
                   product_data, all_products, log, writes, fetched, calls>>

\* the loop body up to download_html(url) inside parse_url(url)
Download ==
    /\ pc = "download"
    /\ product_url' = links[i]
    /\ \E h \in DownloadResults :
         /\ html_content' = h
         /\ fetched' = Append(fetched, h)
    /\ log' = Append(log, "fetch")
    /\ pc' = "extract"
    /\ UNCHANGED <<links_file, output_file, file0, links, i, product_data,
                   all_products, writes, calls>>

AccumulateDropNone(results, pd, url) ==
    IF pd # NoneRecord
    THEN Append(results, IF ~Truthy(pd["URL"]) THEN [pd EXCEPT !["URL"] = url] ELSE pd)
    ELSE results

\* if product_data: ... all_products.append(product_data) else: all_products.append(None)
Accumulate(results, pd, url) ==
    IF pd # NoneRecord
    THEN Append(results, IF ~Truthy(pd["URL"]) THEN [pd EXCEPT !["URL"] = url] ELSE pd)
    ELSE Append(results, NoneRecord)

\* the rest of parse_url(url), then the if/else that appends to all_products
Extract ==
    /\ pc = "extract"
    /\ \E id2 \in Uuids :
         product_data' = parse_url(product_url, html_content, id2)
    /\ all_products' = Accumulate(all_products, product_data', product_url)
    /\ pc' = "pace"
    /\ UNCHANGED <<links_file, output_file, file0, links, i, html_content,
                   product_url, log, writes, fetched, calls>>

SleepsAfterLastToo(n, len) == n <= len

\* if i < len(links): time.sleep(1)
Sleeps(n, len) == n < len

\* the end of the loop body: the delay, then the next URL or the end of the loop
Pace ==
    /\ pc = "pace"
    /\ log' = IF Sleeps(i, Len(links)) THEN Append(log, "sleep") ELSE log
    /\ i' = i + 1
    /\ pc' = IF i < Len(links) THEN "download" ELSE "save"
    /\ UNCHANGED <<links_file, output_file, file0, links, html_content, product_url,
                   product_data, all_products, writes, fetched, calls>>

\* if all_products: save_to_csv(all_products, output_file, append=False) else: ...
Save ==
    /\ pc = "save"
    /\ IF all_products # <<>>
       THEN /\ output_file' = save_to_csv(all_products, output_file, FALSE)
            /\ writes' = IF SaveWrites(all_products) THEN writes + 1 ELSE writes
            /\ pc' = "done"
       ELSE /\ pc' = "no_results"
            /\ UNCHANGED <<output_file, writes>>
    /\ UNCHANGED <<links_file, file0, links, i, html_content, product_url,
                   product_data, all_products, log, fetched, calls>>

Next == ReadLinks \/ Download \/ Extract \/ Pace \/ Save

Spec == Init /\ [][Next]_vars

---------------------------------------------------------------------------
(* SpecCsv: save_to_csv and the clean mode, called in any order on one file *)

\* a record as the extraction builds it for a page titled title
RecordOf(title, url) ==
    extract_product_data_regex([ProductPage EXCEPT !.matches = ("title" :> title)],
                               url, <<"u", "1">>)

CsvRecords == {RecordOf(<<"T", APOS>>, <<"a">>), RecordOf(<<DQ, "U">>, <<"b">>)}

CsvLists == SeqUpTo(CsvRecords \cup {NoneRecord}, MaxRecs)

\* a file of another origin: no header, quote characters in its line
QuotedFile == <<<<"x", DQ, ";", APOS, "y">>>>

InitCsv ==
    /\ pc = "csv"
    /\ file0 \in {NoFile, OldFile, QuotedFile}
    /\ output_file = file0
    /\ calls = <<>>
    /\ writes = 0
    /\ links_file = NoFile /\ links = <<>> /\ i = 0 /\ all_products = <<>>
    /\ log = <<>> /\ fetched = <<>>
    /\ html_content = NoneRecord /\ product_url = None /\ product_data = NoneRecord

CsvUnchanged ==
    UNCHANGED <<pc, links_file, file0, links, html_content, product_url,
                product_data, all_products, log, fetched>>

\* the call history with call c added, cut to its last two calls
Called(c) == IF Len(calls) = 2 THEN <<calls[2], c>> ELSE Append(calls, c)

\* i counts the calls made
CallSave ==
    /\ pc = "csv"
    /\ i < MaxCalls
    /\ i' = i + 1
    /\ \E list \in CsvLists, append \in BOOLEAN :
         /\ output_file' = save_to_csv(list, output_file, append)
         /\ writes' = IF SaveWrites(list) THEN writes + 1 ELSE writes
         /\ calls' = Called([op |-> "save", list |-> list, append |-> append,
                                    before |-> output_file])
    /\ CsvUnchanged

\* clean_existing_csv: the 'clean' invocation mode
CallClean ==
    /\ pc = "csv"
    /\ i < MaxCalls
    /\ i' = i + 1
    /\ output_file' = clean_csv_file(output_file)
    /\ calls' = Called([op |-> "clean", list |-> <<>>, append |-> FALSE,
                        before |-> output_file])
    /\ UNCHANGED writes
    /\ CsvUnchanged

NextCsv == CallSave \/ CallClean

SpecCsv == InitCsv /\ [][NextCsv]_vars

---------------------------------------------------------------------------
(* SpecQuote: one save_to_csv call on records whose fields hold any characters *)

QuoteAlphabet == {"a", ";", DQ, APOS, RDQ}

QuoteStrings == SeqUpTo(QuoteAlphabet, MaxStrLen)

InitQuote ==
    /\ pc = "quote"
    /\ file0 \in {NoFile, OldFile}
    /\ output_file = file0
    /\ calls = <<>>
    /\ writes = 0
    /\ links_file = NoFile /\ links = <<>> /\ i = 0 /\ all_products = <<>>
    /\ log = <<>> /\ fetched = <<>>
    /\ html_content = NoneRecord /\ product_url = None /\ product_data = NoneRecord

\* a page whose title and description are the given strings
QuotePage(title, description) ==
    [ProductPage EXCEPT !.matches = ("title" :> title), !.swym = description]

SaveQuoted ==
    /\ pc = "quote"
    /\ \E title \in QuoteStrings, description \in QuoteStrings :
         /\ product_data' = extract_product_data_regex(QuotePage(title, description),
                                                       <<"a">>, <<"u", "1">>)
         /\ all_products' = <<product_data'>>
         /\ output_file' = save_to_csv(all_products', output_file, FALSE)
    /\ writes' = writes + 1
    /\ pc' = "saved"
    /\ UNCHANGED <<links_file, file0, links, i, html_content, product_url, log,
                   fetched, calls>>

NextQuote == SaveQuoted

SpecQuote == InitQuote /\ [][NextQuote]_vars

---------------------------------------------------------------------------
(* Properties *)

Min(a, b) == IF a < b THEN a ELSE b

Count(seq, x) == Cardinality({k \in 1..Len(seq) : seq[k] = x})

\* the characters of line before its first semicolon
BeforeFirst(line, ch) ==
    IF InSeq(ch, line)
    THEN SubSeq(line, 1, (CHOOSE k \in 1..Len(line) :
                            line[k] = ch /\ \A j \in 1..(k - 1) : line[j] # ch) - 1)
    ELSE line

\* the characters of line after its first ch
AfterFirst(line, ch) ==
    IF InSeq(ch, line)
    THEN SubSeq(line, (CHOOSE k \in 1..Len(line) :
                         line[k] = ch /\ \A j \in 1..(k - 1) : line[j] # ch) + 1, Len(line))
    ELSE <<>>

\* the elements of seq at the indices in idx, in increasing index order
RECURSIVE AtIndices(_, _, _)
AtIndices(seq, idx, k) ==
    IF k > Len(seq) THEN <<>>
    ELSE (IF k \in idx THEN <<seq[k]>> ELSE <<>>) \o AtIndices(seq, idx, k + 1)

\* a call of the extraction functions has returned a record
Returned ==
    /\ pc \in {"extract_product_data_regex", "extract_product_data",
               "parse_html_file", "parse_url"}
    /\ product_data # NoneRecord

\* what the patterns found on the page at hand
Found == DOMAIN html_content.matches

\* the image list process_kiwi_data was given
ImagesGiven ==
    IF "images" \in Found
    THEN [n \in 1..Len(html_content.matches["images"]) |->
             UnescapeSlashes(html_content.matches["images"][n])]
    ELSE <<>>

\* C1: after save_to_csv the output file holds neither ", ' nor U+201D
C1_NoQuoteCharsInOutput ==
    pc = "saved" =>
        \A n \in 1..Len(output_file) : \A k \in 1..Len(output_file[n]) :
            output_file[n][k] \notin {DQ, APOS, RDQ}

\* C2: every returned record has exactly the 14 columns, and a source field that
\* was not found gives the empty string in its column
C2_AllFourteenKeys ==
    Returned =>
        /\ DOMAIN product_data = {"URL", "ID", "Name", "Brand", "Article", "Gender",
                                  "Image2", "Ext Images", "Description", "Sizes",
                                  "Color", "Category", "ID2", "Combine"}
        /\ Cardinality(DOMAIN product_data) = 14
        /\ \A k \in DOMAIN product_data : product_data[k] # None
        /\ "product" \notin Found => product_data["ID"] = <<>>
        /\ "title" \notin Found => product_data["Name"] = <<>>
        /\ "vendor" \notin Found => product_data["Brand"] = <<>>
        /\ "type" \notin Found => product_data["Category"] = <<>>
        /\ "images" \notin Found =>
               product_data["Image2"] = <<>> /\ product_data["Ext Images"] = <<>>
        /\ ~html_content.variants_match =>
               product_data["Sizes"] = <<>> /\ product_data["Article"] = <<>>

C2_Witness ==
    /\ Returned
    /\ pc = "parse_url"
    /\ Found = {"vendor", "images"}
    /\ ~html_content.variants_match
    /\ product_data["Name"] = <<>>
    /\ product_data["Brand"] # <<>>

\* the n-th image as it stands in the record: Image2, or a part of Ext Images
Placed(n) ==
    IF n = 1 THEN product_data["Image2"]
    ELSE IF n = 2 THEN BeforeFirst(product_data["Ext Images"], ",")
    ELSE AfterFirst(product_data["Ext Images"], ",")

\* C5: each of the first three images is output as https: + url when it starts
\* with //, else as the site origin + url when it starts with /, else unchanged
C5_ImageRewriting ==
    Returned =>
        \A n \in 1..Min(3, Len(ImagesGiven)) :
            LET url == ImagesGiven[n] IN
            /\ (Len(url) >= 2 /\ url[1] = "/" /\ url[2] = "/") =>
                   Placed(n) = <<"h", "t", "t", "p", "s", ":">> \o url
            /\ (Len(url) >= 1 /\ url[1] = "/" /\ ~(Len(url) >= 2 /\ url[2] = "/")) =>
                   Placed(n) = ORIGIN \o url
            /\ (Len(url) = 0 \/ url[1] # "/") => Placed(n) = url

C5_Witness ==
    /\ Returned
    /\ Len(ImagesGiven) = 3
    /\ ImagesGiven[1] = <<"/", "q">>
    /\ ImagesGiven[2] = <<"c">>
    /\ ImagesGiven[3] = <<"/", "/", "c">>
    /\ product_data["Image2"] = ORIGIN \o <<"/", "q">>
    /\ product_data["Ext Images"] = <<"c", ",", "h", "t", "t", "p", "s", ":", "/", "/", "c">>

\* the absolute form of a URL
Absolute(url) ==
    CASE StartsWith(url, <<"/", "/">>) -> HTTPS \o url
      [] StartsWith(url, <<"/">>) /\ ~StartsWith(url, <<"/", "/">>) -> ORIGIN \o url
      [] OTHER -> url

\* C6: Image2 is the first image ('' when there is none); Ext Images is '' for at
\* most one image, the second image for two, the second and third joined by a
\* comma for three or more; later images leave no trace
C6_ImageCount ==
    Returned =>
        LET n == Len(ImagesGiven) IN
        /\ n = 0 => product_data["Image2"] = <<>>
        /\ n >= 1 => product_data["Image2"] = Absolute(ImagesGiven[1])
        /\ n <= 1 => product_data["Ext Images"] = <<>>
        /\ n = 2 => product_data["Ext Images"] = Absolute(ImagesGiven[2])
        /\ n >= 3 => product_data["Ext Images"] =
                         Absolute(ImagesGiven[2]) \o <<",">> \o Absolute(ImagesGiven[3])
        /\ Count(product_data["Ext Images"], ",") <= 1

C6_Witness ==
    /\ Returned
    /\ Len(ImagesGiven) = 4
    /\ ImagesGiven[4] # ImagesGiven[3]
    /\ ImagesGiven[4] # ImagesGiven[2]
    /\ Count(product_data["Ext Images"], ",") = 1

\* the labels and SKUs of the variant blocks of the page at hand
LabelsGiven ==
    [k \in 1..Len(html_content.variant_blocks) |-> html_content.variant_blocks[k][1]]

SkusGiven ==
    [k \in 1..Len(html_content.variant_blocks) |-> html_content.variant_blocks[k][2]]

\* the indices at which a label occurs for the first time
FirstOccurrences(labels) ==
    {k \in 1..Len(labels) : \A j \in 1..(k - 1) : labels[j] # labels[k]}

\* C7: Sizes is the comma-join of the distinct labels in order of first
\* occurrence, Article the SKU of the first variant ('' without variants)
C7_SizesAndArticle ==
    (Returned /\ html_content.variants_match) =>
        /\ product_data["Sizes"] =
               Join(<<",">>, AtIndices(LabelsGiven, FirstOccurrences(LabelsGiven), 1))
        /\ product_data["Article"] =
               (IF Len(SkusGiven) = 0 THEN <<>> ELSE SkusGiven[1])

C7_Witness ==
    /\ Returned
    /\ html_content.variant_blocks =
           << <<<<"S">>, <<"1">>>>, <<<<"M">>, <<"1">>>>, <<<<"S">>, <<"2">>>> >>
    /\ product_data["Sizes"] = <<"S", ",", "M">>
    /\ product_data["Article"] = <<"1">>

\* download_html returned None, or the page has no data block
Failed(h) == h = NoneRecord \/ h.empty \/ ~h.kiwi

\* main has ended after processing at least one URL
Finished == pc = "done" /\ links # <<>>

\* the data rows of the output file
DataRows == Tail(output_file)

\* the indices of the URLs processed so far that gave a record
Succeeded == {k \in 1..Len(fetched) : ~Failed(fetched[k])}

\* C3: a failed URL gives no row and does not stop the loop: at the end every URL
\* was fetched and the rows number the URLs minus the failed ones
C3_FailedUrlsGiveNoRow ==
    Finished =>
        /\ Len(fetched) = Len(links)
        /\ Count(log, "fetch") = Len(links)
        /\ Len(DataRows) =
               Len(links) - Cardinality({k \in 1..Len(links) : Failed(fetched[k])})
        /\ \A n \in 1..Len(DataRows) :
               BeforeFirst(DataRows[n], ";") \in {links[k] : k \in Succeeded}

C3_Witness ==
    /\ Finished
    /\ Len(links) = 3
    /\ fetched[1] = NoneRecord
    /\ fetched[2] = NoDataPage
    /\ ~Failed(fetched[3])
    /\ Len(DataRows) = 1
    /\ BeforeFirst(DataRows[1], ";") = links[3]

\* the number of URLs whose processing is complete
Processed ==
    CASE pc = "start" -> 0
      [] pc \in {"download", "extract"} -> i - 1
      [] pc = "pace" -> i
      [] OTHER -> Len(links)

\* C8: after k URLs the results hold k entries, entry n the record of URL n or the
\* None placeholder; the file is not touched before the single write at the end,
\* and its rows follow the order of their URLs
C8_OrderedAccumulationSingleWrite ==
    /\ Len(all_products) = Processed
    /\ \A n \in 1..Len(all_products) :
           IF Failed(fetched[n]) THEN all_products[n] = NoneRecord
           ELSE all_products[n] # NoneRecord /\ all_products[n]["URL"] = links[n]
    /\ pc = "extract" => product_url = links[Len(all_products) + 1]
    /\ pc \notin {"done", "no_results"} => output_file = file0 /\ writes = 0
    /\ writes <= 1
    /\ Finished =>
           /\ writes = 1
           /\ output_file[1] = HeaderLine
           /\ [n \in 1..Len(DataRows) |-> BeforeFirst(DataRows[n], ";")]
                  = AtIndices(links, Succeeded, 1)

C8_Witness ==
    /\ Finished
    /\ Len(links) = 3
    /\ links[1] # links[3]
    /\ all_products[2] = NoneRecord
    /\ all_products[1] # NoneRecord
    /\ Len(DataRows) = 2
    /\ BeforeFirst(DataRows[2], ";") = links[3]

\* C9: fetches and sleeps alternate, starting and ending with a fetch, so a run
\* over n URLs sleeps n-1 times, also after a failed URL and never after the last
C9_DelayBetweenFetches ==
    /\ \A k \in 1..Len(log) : log[k] = (IF k % 2 = 1 THEN "fetch" ELSE "sleep")
    /\ pc = "download" /\ i > 1 => log[Len(log)] = "sleep"
    /\ Finished =>
           /\ Count(log, "sleep") = Len(links) - 1
           /\ Count(log, "fetch") = Len(links)
           /\ log[Len(log)] = "fetch"

C9_Witness ==
    /\ Finished
    /\ Len(links) = 3
    /\ Failed(fetched[1])
    /\ Failed(fetched[3])
    /\ log = <<"fetch", "sleep", "fetch", "sleep", "fetch">>

\* a line of links.txt that holds a URL: its first non-blank character exists
\* and is not the comment sign
IsLinkLine(line) ==
    \E k \in 1..Len(line) :
        /\ line[k] \notin {" ", "#"}
        /\ \A j \in 1..(k - 1) : line[j] = " "

\* links.txt exists, can be read and holds at least one URL
YieldsUrl(file) ==
    /\ file # NoFile
    /\ file # Unreadable
    /\ \E n \in 1..Len(file) : IsLinkLine(file[n])

\* C10: with at least one link main always ends by replacing the output file,
\* by a header-only file when every URL failed, and never takes the no-results
\* branch; without links the output file is left as it was
C10_AlwaysWritesWhenLinksExist ==
    /\ pc # "no_results"
    /\ pc \in {"start", "download", "extract", "pace", "save", "done"}
    /\ pc \in {"download", "extract", "pace"} => i \in 1..Len(links)
    /\ pc = "save" => all_products # <<>>
    /\ Finished =>
           /\ writes = 1
           /\ output_file # NoFile
           /\ output_file[1] = HeaderLine
           /\ (\A k \in 1..Len(links) : Failed(fetched[k])) => output_file = <<HeaderLine>>
    /\ pc = "done" /\ links = <<>> => output_file = file0 /\ writes = 0
    /\ pc = "done" => (links = <<>> <=> ~YieldsUrl(links_file))

C10_Witness ==
    /\ Finished
    /\ Len(links) = 2
    /\ \A k \in 1..Len(links) : Failed(fetched[k])
    /\ file0 = OldFile
    /\ output_file = <<HeaderLine>>

\* the number of records (entries other than None) in a list
Records(list) == Len(list) - Count(list, NoneRecord)

\* the line a record leaves in the file
RowLine(pd) == CleanLine(WriteRow(clean_product_data(pd)))

RowLines(list) ==
    LET recs == AtIndices(list, {k \in 1..Len(list) : list[k] # NoneRecord}, 1)
    IN [n \in 1..Len(recs) |-> RowLine(recs[n])]

\* the last two calls were save_to_csv(N >= 1 records, append=False) and then
\* save_to_csv(M >= 0 records, append=True)
WriteThenAppend ==
    /\ Len(calls) >= 2
    /\ LET c1 == calls[Len(calls) - 1]
           c2 == calls[Len(calls)]
       IN /\ c1.op = "save" /\ ~c1.append /\ Records(c1.list) >= 1
          /\ c2.op = "save" /\ c2.append

\* C4: N records written with append=False and then M records with append=True
\* leave one header row followed by the N rows and then the M rows
C4_WriteThenAppend ==
    WriteThenAppend =>
        LET c1 == calls[Len(calls) - 1]
            c2 == calls[Len(calls)]
        IN /\ Len(output_file) = 1 + Records(c1.list) + Records(c2.list)
           /\ output_file[1] = HeaderLine
           /\ Count(output_file, HeaderLine) = 1
           /\ Tail(output_file) = RowLines(c1.list) \o RowLines(c2.list)

C4_Witness ==
    /\ WriteThenAppend
    /\ calls[1].before = OldFile
    /\ Records(calls[1].list) = 2
    /\ calls[1].list[1] # calls[1].list[2]
    /\ Records(calls[2].list) = 1
    /\ Len(calls[2].list) = 2
    /\ Len(output_file) = 4

====
